---- MODULE Spec2Model ----
(***************************************************************************)
(* Grid aggregation and caching engine of the biodiversity map server.     *)
(*                                                                         *)
(* server.js keeps a global cache of density grids (gridCache), refreshed  *)
(* in the background by computeGlobalGrid under the single-flight flag     *)
(* isComputingCache, serves it through GET /api/coords/grid/cached and     *)
(* computes bounded grids on demand through GET /api/coords/grid.  db.js   *)
(* provides the collection the record streams (cursors) come from.         *)
(*                                                                         *)
(* Degrees are integers in thousandths (0.25 deg = 250).  Arithmetic on     *)
(* them is that of doubles with a mantissa of FloatBits bits: sums,        *)
(* quotients and products are rounded to the nearest representable value.  *)
(* A handler is cut into actions at its awaits: one action per fetch of    *)
(* the cursor.                                                             *)
(*                                                                         *)
(* Specifications: Spec is the cache engine (connection, timers, runs,     *)
(* lookups); SpecAgg puts the background runs and the on-demand requests   *)
(* side by side; SpecCall adds calls of computeGlobalGrid for any cell     *)
(* size; SpecRuns runs a refresh and two on-demand requests together;      *)
(* SpecCancel is one on-demand request and its client; SpecDb is the       *)
(* connector of db.js with its reconnect timer.  FairSpec, FairTimers and  *)
(* FairDb add the fairness of the event loop and of the timers.  SpecFold  *)
(* runs the loop of either scan on a stream drawn beforehand, SpecParams   *)
(* reads the parameters of an on-demand request, SpecCell applies the      *)
(* discretizer and its inverse to a point.                                 *)
(***************************************************************************)
EXTENDS Integers, Sequences, FiniteSets, TLC

\* ------------------------------------------------------------- bounds
\* Longest record stream a cursor delivers.
MaxLen == 3
\* The scan cap of the background refresh and the default maxDocs of the
\* on-demand path (35000000 in the source), scaled to the streams above.
ScanCap == 1
\* Invocations of computeGlobalGrid that can be in flight in the model.
MaxRuns == 2
\* Longest stream of a scan whose stream is drawn beforehand.
FoldLen == 3
\* Mantissa of a double (53 bits in the source), scaled to the thousandths of
\* a degree: integers below 2^17 are exact, above they are rounded.
FloatBits == 17

\* Highest attempt number of connectToMongo that can fail.
MaxAttempt == 12
\* Calls of connectToMongo awaiting client.connect() at a time.
MaxConnecting == 2

\* ---------------------------------------------------------- constants
\* computeGlobalGrid(0.25, ...) of the two timers, in thousandths of a degree.
DefaultSizeDeg == 250
\* Default sizeDeg of the on-demand path (1.0).
OnDemandSizeDeg == 1000
\* Clamp of the on-demand cell size: [0.005, 10].
MinSizeDeg == 5
MaxSizeDeg == 10000
\* lat + 90, lng + 180 of the discretizer.
LatOffset == 90000
LngOffset == 180000
\* baseDelay and maxDelay of connectToMongo, default wait of
\* scheduleReconnect, in ms.
BaseDelay == 3000
MaxDelay == 30000
DefaultWait == 3000

\* ------------------------------------------------------------ numbers
\* A JS number: finite (v, in thousandths of a degree or a plain integer), NaN,
\* or an infinity (v its sign).
Fin(v) == [k |-> "fin", v |-> v]
NaN == [k |-> "nan", v |-> 0]
Infinity(sign) == [k |-> "inf", v |-> sign]

Min(a, b) == IF a <= b THEN a ELSE b
Max(a, b) == IF a >= b THEN a ELSE b
Abs(n) == IF n < 0 THEN 0 - n ELSE n

\* 2^e, and 1 for e <= 0.
Pow2(e) == IF e <= 0 THEN 1 ELSE 2 ^ e

\* Number of binary digits of n, for 0 <= n < 2^30.
BitLen(n) == CHOOSE b \in 0..30 : n < 2 ^ b /\ (b = 0 \/ 2 ^ (b - 1) <= n)

\* a / b (b > 0) rounded to the nearest integer, ties to the even one.
RoundHalfEven(a, b) ==
  LET R[x \in Int, y \in Int] ==
        LET f == x \div y
            rem == x - f * y
        IN  IF 2 * rem > y \/ (2 * rem = y /\ f % 2 = 1) THEN f + 1 ELSE f
  IN  R[a, b]

\* Integers of a smaller magnitude are doubles.
FloatMax == Pow2(FloatBits)

\* The double nearest to the integer n: a mantissa of FloatBits bits, ties to even.
Fl(n) ==
  LET Rounded[x \in Int, ulp \in Int] == RoundHalfEven(x, ulp) * ulp
      F[x \in Int] ==
        IF Abs(x) < FloatMax THEN x
        ELSE Rounded[x, Pow2(BitLen(Abs(x)) - FloatBits)]
  IN  F[n]

\* Binary exponent of a / b, for a, b > 0: the e with 2^e <= a / b < 2^(e + 1).
Expo(a, b) ==
  IF a >= b THEN BitLen(a \div b) - 1
  ELSE 0 - (CHOOSE j \in 1..30 : a * 2 ^ j >= b /\ a * 2 ^ (j - 1) < b)

\* floor(fl(x / s)) by the rounding itself: the magnitude r of the rounded
\* quotient, in units of 2^-m or 2^u, then the floor.
FloorOfRounded(x, s) ==
  LET Floored[r \in Int, m \in Int] ==
        IF m < 0 THEN (IF x > 0 THEN r ELSE 0 - r)
        ELSE IF x > 0 THEN r \div Pow2(m)
        ELSE 0 - ((r + Pow2(m) - 1) \div Pow2(m))
      Scaled[a \in Int, m \in Int] ==
        LET f == a \div s
            u == Pow2(0 - m)
        IN  Floored[IF m >= 0
                    THEN f * Pow2(m) + RoundHalfEven((a - f * s) * Pow2(m), s)
                    ELSE RoundHalfEven(a, s * u) * u,
                    m]
  IN  Scaled[Abs(x), (FloatBits - 1) - Expo(Abs(x), s)]

\* Math.floor(x / s) for finite x and s > 0: the quotient is rounded to a double
\* before the floor.  When the quotient is further from the integers around it
\* than half a unit in the last place (less than slack / s), the rounding does
\* not reach them and the floor is that of the exact quotient.
FloorDiv(x, s) ==
  LET D[y \in Int, t \in Int] ==
        LET a == Abs(y)
            f == a \div t
            rem == a - f * t
            slack == (t * (f + 1)) \div FloatMax
        IN  IF rem = 0 /\ f < FloatMax THEN (IF y >= 0 THEN f ELSE 0 - f)
            ELSE IF y > 0 /\ t - rem > slack THEN f
            ELSE IF y < 0 /\ rem > slack THEN 0 - (f + 1)
            ELSE FloorOfRounded(y, t)
  IN  D[x, s]

\* a < b and a > b of JS numbers: false as soon as one is NaN.
Lt(a, b) ==
  /\ a.k # "nan" /\ b.k # "nan"
  /\ \/ a.k = "fin" /\ b.k = "fin" /\ a.v < b.v
     \/ a.k = "fin" /\ b.k = "inf" /\ b.v > 0
     \/ a.k = "inf" /\ b.k = "fin" /\ a.v < 0
     \/ a.k = "inf" /\ b.k = "inf" /\ a.v < b.v
Gt(a, b) == Lt(b, a)

\* ------------------------------------------------------------ records
\* A coordinate of a document: num is `typeof x === 'number'`, which NaN and
\* the infinities satisfy; k and v as in a JS number.
Num(v) == [num |-> TRUE, k |-> "fin", v |-> v]
NumNaN == [num |-> TRUE, k |-> "nan", v |-> 0]
NumInfinity == [num |-> TRUE, k |-> "inf", v |-> 1]
NotNum == [num |-> FALSE, k |-> "nan", v |-> 0]
Doc(lat, lng) == [decimalLatitude |-> lat, decimalLongitude |-> lng, scientificName |-> ""]

\* The documents a cursor can deliver: two points of different cells (for
\* every cell size of the model) and one whose latitude is not a number.
Docs ==
  { Doc(Num(-10100), Num(-50200)),
    Doc(Num(10000), Num(10000)),
    Doc(NotNum, Num(10000)) }

\* ------------------------------------------------------------ queries
\* A query parameter: absent, or a string that Number() turns into a finite
\* number v or into NaN (fin = FALSE).
Absent == [given |-> FALSE, fin |-> FALSE, v |-> 0]
Given(v) == [given |-> TRUE, fin |-> TRUE, v |-> v]
GivenNaN == [given |-> TRUE, fin |-> FALSE, v |-> 0]

\* Number(req.query.x ?? d)
NumberOr(p, d) == IF p.given THEN [fin |-> p.fin, v |-> p.v] ELSE [fin |-> TRUE, v |-> d]

\* sizeDeg values asked of the cached endpoint.
CachedQueries == { Absent, Given(DefaultSizeDeg), Given(OnDemandSizeDeg), Given(0), GivenNaN }

\* A request of the on-demand endpoint without the bbox parameters.
GridQuery(sizeDeg, maxDocs) ==
  [sizeDeg |-> sizeDeg, maxDocs |-> maxDocs,
   south |-> Absent, west |-> Absent, north |-> Absent, east |-> Absent]

\* Requests of the on-demand endpoint: a sizeDeg above the clamp with an
\* invalid maxDocs (the default cap), and the default sizeDeg with a maxDocs of 3.
GridQueries ==
  { GridQuery(Given(20000), Given(0)),
    GridQuery(Absent, Given(3)) }

\* ------------------------------------------------------------ state
VARIABLES
  collection,        \* db.js `collection`: "unset" until connect succeeds, then "ready"
  gridCache,         \* server.js gridCache: key (sizeDeg) -> snapshot
  isComputingCache,  \* server.js isComputingCache
  warmupFired,       \* the setTimeout(..., 5000) has fired
  bgRuns,            \* invocations of computeGlobalGrid past their lock check, in flight
  lastComplete,      \* history: key -> the snapshot the last run to complete for it built
  ret,               \* the last computeGlobalGrid call to return: why, and its sizeDeg
  cachedResp,        \* last response of GET /api/coords/grid/cached
  gridReq,           \* the on-demand request in flight (its locals), or idle
  gridResp,          \* response of the last GET /api/coords/grid (none while it runs)
  alive,             \* the process has not died of an uncaught error
  reconnectTimer,    \* db.js reconnectTimer holds a timer handle (not null)
  timers,            \* pending setTimeout callbacks of scheduleReconnect: nextAttempt, wait
  connecting,        \* calls of connectToMongo awaiting client.connect(): their attempt numbers
  call               \* a function applied to drawn inputs: its arguments, its progress, its result

vars == << collection, gridCache, isComputingCache, warmupFired, bgRuns, lastComplete, ret,
           cachedResp, gridReq, gridResp, alive, reconnectTimer, timers, connecting, call >>

\* ------------------------------------------------------ discretizer
\* Math.floor((x + off) / sizeDeg) for a coordinate x: NaN and the infinities
\* go through the sum, the quotient and the floor unchanged.
FloorIndex(x, off, sizeDeg) ==
  IF x.k = "fin" THEN Fin(FloorDiv(Fl(x.v + off), sizeDeg)) ELSE [k |-> x.k, v |-> x.v]

\* `${i}:${j}` with i, j the floor quotients; the key is the pair (i, j).
cellKeyFromLatLng(lat, lng, sizeDeg) ==
  << FloorIndex(lat, LatOffset, sizeDeg), FloorIndex(lng, LngOffset, sizeDeg) >>

\* -off + i * sizeDeg, and that plus sizeDeg, for the index i read back from
\* the key by Number().
EdgesOf(i, off, sizeDeg) ==
  IF i.k = "fin"
  THEN LET x0 == Fl((0 - off) + Fl(i.v * sizeDeg))
       IN  << Fin(x0), Fin(Fl(x0 + sizeDeg)) >>
  ELSE << i, i >>

boundsFromKey(k, sizeDeg) ==
  LET lat == EdgesOf(k[1], LatOffset, sizeDeg)
      lng == EdgesOf(k[2], LngOffset, sizeDeg)
  IN  << << lat[1], lng[1] >>, << lat[2], lng[2] >> >>

\* ------------------------------------------------------- accumulation
\* A JS Map key -> count, as the sequence of its entries in insertion order.
MapHas(map, k) == \E x \in 1..Len(map) : map[x].key = k

\* MapIncr that adds an entry for every document, known key or not.
MapIncr_NoMerge(map, k) == Append(map, [key |-> k, count |-> 1])

\* map.set(key, (map.get(key) || 0) + 1)
MapIncr(map, k) ==
  IF MapHas(map, k)
  THEN [x \in 1..Len(map) |->
          IF map[x].key = k THEN [key |-> k, count |-> map[x].count + 1] ELSE map[x]]
  ELSE Append(map, [key |-> k, count |-> 1])

\* for (const [k, count] of map.entries()) cells.push({ key, count, bounds })
CellsOf(map, sizeDeg) ==
  [x \in 1..Len(map) |->
     [key |-> map[x].key, count |-> map[x].count, bounds |-> boundsFromKey(map[x].key, sizeDeg)]]

\* Insertion of c in a sequence sorted by non-increasing count, after its equals.
RECURSIVE InsertCell(_, _)
InsertCell(sorted, c) ==
  IF sorted = << >> THEN << c >>
  ELSE IF Head(sorted).count >= c.count
       THEN << Head(sorted) >> \o InsertCell(Tail(sorted), c)
       ELSE << c >> \o sorted

\* SortCells that leaves the cells in the order of the map.
SortCells_Unsorted(cells) == cells

\* cells.sort((a, b) => b.count - a.count): a stable sort, descending by count.
RECURSIVE SortCells(_)
SortCells(cells) ==
  IF cells = << >> THEN << >>
  ELSE InsertCell(SortCells(SubSeq(cells, 1, Len(cells) - 1)), cells[Len(cells)])

\* The accumulation of a document into the run's map, after scanned++.
Accumulate(r, doc, s) ==
  IF ~doc.decimalLatitude.num \/ ~doc.decimalLongitude.num
  THEN [r EXCEPT !.scanned = s, !.pos = r.pos + 1]
  ELSE [r EXCEPT !.scanned = s, !.pos = r.pos + 1,
                 !.map = MapIncr(r.map, cellKeyFromLatLng(doc.decimalLatitude,
                                                          doc.decimalLongitude,
                                                          r.sizeDeg))]

\* ScanDoc that breaks one document late: `scanned > cap + 1`.
ScanDoc_LateBreak(r, doc, cap) ==
  LET s == r.scanned + 1 IN
  IF s > cap + 1
  THEN [r EXCEPT !.scanned = s, !.pos = r.pos + 1, !.pc = "brk"]
  ELSE Accumulate(r, doc, s)

\* ScanDoc that skips the documents past the cap instead of leaving the loop.
ScanDoc_NoBreak(r, doc, cap) ==
  LET s == r.scanned + 1 IN
  IF s > cap
  THEN [r EXCEPT !.scanned = s, !.pos = r.pos + 1]
  ELSE Accumulate(r, doc, s)

\* ScanDoc that tests the cap after the accumulation: the document that
\* exceeds the cap is accumulated before the loop is left.
ScanDoc_BreakAfter(r, doc, cap) ==
  LET s == r.scanned + 1 IN
  IF s > cap
  THEN [Accumulate(r, doc, s) EXCEPT !.pc = "brk"]
  ELSE Accumulate(r, doc, s)

\* One turn of the `for await` body on a fetched document: scanned++, the break
\* on the cap, the typeof test, the accumulation.  r holds the run's locals.
ScanDoc(r, doc, cap) ==
  LET s == r.scanned + 1 IN
  IF s > cap
  THEN [r EXCEPT !.scanned = s, !.pos = r.pos + 1, !.pc = "brk"]
  ELSE Accumulate(r, doc, s)

\* { cells, scanned, capped: scanned >= cap } after the loop.  The cells
\* array is built once from the map and then sorted.
SnapshotOf(r, cap) ==
  [cells |-> CHOOSE sorted \in { SortCells(cells) :
                                   cells \in { CellsOf(r.map, r.sizeDeg) } } : TRUE,
   scanned |-> r.scanned,
   capped |-> (r.scanned >= cap)]

\* The locals of a scan at cursor creation: a stream of n documents to come.
NewScan(sizeDeg, cap, n) ==
  [sizeDeg |-> sizeDeg, cap |-> cap, n |-> n, pos |-> 0, scanned |-> 0,
   map |-> << >>, pc |-> "scan"]

\* A sequence without its i-th element.
Without(seq, i) == SubSeq(seq, 1, i - 1) \o SubSeq(seq, i + 1, Len(seq))

\* gridCache.set(key, snap)
CacheSet(cache, k, snap) ==
  [x \in (DOMAIN cache) \cup {k} |-> IF x = k THEN snap ELSE cache[x]]

\* ------------------------------------------------------------ db.js
\* delay = Math.min(maxDelay, baseDelay * attempt)
Delay(attempt) == Min(MaxDelay, BaseDelay * attempt)

\* scheduleReconnect without `if (reconnectTimer) return`.
scheduleReconnect_NoGuard(handle, pending, nextAttempt, wait) ==
  [reconnectTimer |-> TRUE,
   timers |-> Append(pending, [nextAttempt |-> nextAttempt, wait |-> wait])]

\* scheduleReconnect(nextAttempt, wait) when reconnectTimer is `handle` and the
\* pending timeouts are `pending`: reconnectTimer and the timeouts afterwards.
scheduleReconnect(handle, pending, nextAttempt, wait) ==
  IF handle
  THEN [reconnectTimer |-> handle, timers |-> pending]
  ELSE [reconnectTimer |-> TRUE,
        timers |-> Append(pending, [nextAttempt |-> nextAttempt, wait |-> wait])]

\* client.connect() of a call of connectToMongo resolves:
\* `collection = db.collection(...)`, and the listeners on the client.
connectToMongo ==
  /\ alive
  /\ \E i \in 1..Len(connecting) : connecting' = Without(connecting, i)
  /\ collection' = "ready"
  /\ UNCHANGED << gridCache, isComputingCache, warmupFired, bgRuns, lastComplete, ret,
                  cachedResp, gridReq, gridResp, alive, reconnectTimer, timers, call >>

\* client.connect() of a call of connectToMongo rejects: the catch,
\* scheduleReconnect(attempt + 1, delay).
ConnectFails ==
  /\ alive
  /\ \E i \in 1..Len(connecting) :
       /\ connecting[i] < MaxAttempt
       /\ connecting' = Without(connecting, i)
       /\ LET after == scheduleReconnect(reconnectTimer, timers,
                                         connecting[i] + 1, Delay(connecting[i]))
          IN  /\ reconnectTimer' = after.reconnectTimer
              /\ timers' = after.timers
  /\ UNCHANGED << collection, gridCache, isComputingCache, warmupFired, bgRuns, lastComplete,
                  ret, cachedResp, gridReq, gridResp, alive, call >>

\* A connected client emits 'close': scheduleReconnect() with its defaults.
\* The collection stays what it was.
ClientClose ==
  /\ alive
  /\ collection = "ready"
  /\ reconnectTimer \/ Len(connecting) < MaxConnecting
  /\ LET after == scheduleReconnect(reconnectTimer, timers, 2, DefaultWait)
     IN  /\ reconnectTimer' = after.reconnectTimer
         /\ timers' = after.timers
  /\ UNCHANGED << collection, gridCache, isComputingCache, warmupFired, bgRuns, lastComplete,
                  ret, cachedResp, gridReq, gridResp, alive, connecting, call >>

\* A timeout of scheduleReconnect fires: reconnectTimer = null, then
\* connectToMongo(nextAttempt), which either reaches its await or throws
\* before it (new MongoClient on a bad uri) and goes through its catch at once.
ReconnectFires ==
  /\ alive
  /\ \E i \in 1..Len(timers) :
       \/ /\ connecting' = Append(connecting, timers[i].nextAttempt)
          /\ reconnectTimer' = FALSE
          /\ timers' = Without(timers, i)
       \/ /\ timers[i].nextAttempt < MaxAttempt
          /\ LET after == scheduleReconnect(FALSE, Without(timers, i),
                                            timers[i].nextAttempt + 1,
                                            Delay(timers[i].nextAttempt))
             IN  /\ reconnectTimer' = after.reconnectTimer
                 /\ timers' = after.timers
          /\ UNCHANGED connecting
  /\ UNCHANGED << collection, gridCache, isComputingCache, warmupFired, bgRuns, lastComplete,
                  ret, cachedResp, gridReq, gridResp, alive, call >>

\* getCollection() returns something.
getCollection == collection = "ready"

\* ------------------------------------------------- background refresh
\* computeGlobalGrid up to its first await: the two early returns, the lock,
\* the cursor.
Returned(why, sizeDeg) == [why |-> why, sizeDeg |-> sizeDeg]

\* computeGlobalGrid that starts a run without looking at isComputingCache.
computeGlobalGrid_NoLock(sizeDeg, cap) ==
  IF ~getCollection
  THEN /\ ret' = Returned("unavailable", sizeDeg)
       /\ UNCHANGED << gridCache, isComputingCache, bgRuns, lastComplete >>
  ELSE /\ Len(bgRuns) < MaxRuns
       /\ isComputingCache' = TRUE
       /\ \E n \in 0..MaxLen : bgRuns' = Append(bgRuns, NewScan(sizeDeg, cap, n))
       /\ UNCHANGED << gridCache, lastComplete, ret >>

\* computeGlobalGrid that takes the lock before it looks for the collection.
computeGlobalGrid_LockFirst(sizeDeg, cap) ==
  IF isComputingCache
  THEN /\ ret' = Returned("skip", sizeDeg)
       /\ UNCHANGED << gridCache, isComputingCache, bgRuns, lastComplete >>
  ELSE IF ~getCollection
       THEN /\ isComputingCache' = TRUE
            /\ ret' = Returned("unavailable", sizeDeg)
            /\ UNCHANGED << gridCache, bgRuns, lastComplete >>
       ELSE /\ Len(bgRuns) < MaxRuns
            /\ isComputingCache' = TRUE
            /\ \E n \in 0..MaxLen : bgRuns' = Append(bgRuns, NewScan(sizeDeg, cap, n))
            /\ UNCHANGED << gridCache, lastComplete, ret >>

computeGlobalGrid(sizeDeg, cap) ==
  IF ~getCollection
  THEN /\ ret' = Returned("unavailable", sizeDeg)
       /\ UNCHANGED << gridCache, isComputingCache, bgRuns, lastComplete >>
  ELSE IF isComputingCache
       THEN /\ ret' = Returned("skip", sizeDeg)
            /\ UNCHANGED << gridCache, isComputingCache, bgRuns, lastComplete >>
       ELSE /\ Len(bgRuns) < MaxRuns
            /\ isComputingCache' = TRUE
            /\ \E n \in 0..MaxLen : bgRuns' = Append(bgRuns, NewScan(sizeDeg, cap, n))
            /\ UNCHANGED << gridCache, lastComplete, ret >>

\* WarmupFire that computes the grid of 1.0 degree.
WarmupFire_OtherSize ==
  /\ alive
  /\ ~warmupFired
  /\ warmupFired' = TRUE
  /\ computeGlobalGrid(OnDemandSizeDeg, ScanCap)
  /\ UNCHANGED << collection, cachedResp, gridReq, gridResp, alive, reconnectTimer, timers,
                connecting, call >>

\* setTimeout(() => computeGlobalGrid(0.25, 35000000), 5000)
WarmupFire ==
  /\ alive
  /\ ~warmupFired
  /\ warmupFired' = TRUE
  /\ computeGlobalGrid(DefaultSizeDeg, ScanCap)
  /\ UNCHANGED << collection, cachedResp, gridReq, gridResp, alive, reconnectTimer, timers,
                connecting, call >>

\* setInterval(() => computeGlobalGrid(0.25, 35000000), 3600000): after the warm-up.
PeriodicFire ==
  /\ alive
  /\ warmupFired
  /\ computeGlobalGrid(DefaultSizeDeg, ScanCap)
  /\ UNCHANGED << collection, warmupFired, cachedResp, gridReq, gridResp, alive, reconnectTimer,
                timers, connecting, call >>

\* A call of computeGlobalGrid for any cell size (the function takes the size;
\* the timers above only ever pass 0.25).
CallSizes == { DefaultSizeDeg, OnDemandSizeDeg }

CallComputeGlobalGrid ==
  /\ alive
  /\ \E s \in CallSizes : computeGlobalGrid(s, ScanCap)
  /\ UNCHANGED << collection, warmupFired, cachedResp, gridReq, gridResp, alive, reconnectTimer,
                timers, connecting, call >>

\* BgScan that also publishes what it has accumulated so far.
BgScan_Publish(i) ==
  /\ alive
  /\ i \in 1..Len(bgRuns)
  /\ bgRuns[i].pc = "scan"
  /\ bgRuns[i].pos < bgRuns[i].n
  /\ \E doc \in Docs :
       LET r == ScanDoc(bgRuns[i], doc, bgRuns[i].cap) IN
         /\ bgRuns' = [bgRuns EXCEPT ![i] = r]
         /\ gridCache' = CacheSet(gridCache, r.sizeDeg, SnapshotOf(r, r.cap))
  /\ UNCHANGED << collection, isComputingCache, warmupFired, lastComplete, ret,
                  cachedResp, gridReq, gridResp, alive, reconnectTimer, timers, connecting, call >>

\* The cursor of run i delivers a document: one turn of the loop.
BgScan(i) ==
  /\ alive
  /\ i \in 1..Len(bgRuns)
  /\ bgRuns[i].pc = "scan"
  /\ bgRuns[i].pos < bgRuns[i].n
  /\ \E doc \in Docs :
       bgRuns' = [bgRuns EXCEPT ![i] = ScanDoc(bgRuns[i], doc, bgRuns[i].cap)]
  /\ UNCHANGED << collection, gridCache, isComputingCache, warmupFired, lastComplete, ret,
                  cachedResp, gridReq, gridResp, alive, reconnectTimer, timers, connecting, call >>

\* BgFinish that adds the scanned of the entry it replaces to the new one.
BgFinish_Merge(i) ==
  /\ alive
  /\ i \in 1..Len(bgRuns)
  /\ \/ bgRuns[i].pc = "scan" /\ bgRuns[i].pos = bgRuns[i].n
     \/ bgRuns[i].pc = "brk"
  /\ LET k == bgRuns[i].sizeDeg
         snap == SnapshotOf(bgRuns[i], bgRuns[i].cap)
         merged == IF k \in DOMAIN gridCache
                   THEN [snap EXCEPT !.scanned = @ + gridCache[k].scanned]
                   ELSE snap
     IN  /\ gridCache' = CacheSet(gridCache, k, merged)
         /\ lastComplete' = CacheSet(lastComplete, k, merged)
  /\ ret' = Returned("done", bgRuns[i].sizeDeg)
  /\ isComputingCache' = FALSE
  /\ bgRuns' = Without(bgRuns, i)
  /\ UNCHANGED << collection, warmupFired, cachedResp, gridReq, gridResp, alive, reconnectTimer,
                timers, connecting, call >>

\* BgFinish that returns without gridCache.set.
BgFinish_NoPut(i) ==
  /\ alive
  /\ i \in 1..Len(bgRuns)
  /\ \/ bgRuns[i].pc = "scan" /\ bgRuns[i].pos = bgRuns[i].n
     \/ bgRuns[i].pc = "brk"
  /\ ret' = Returned("done", bgRuns[i].sizeDeg)
  /\ isComputingCache' = FALSE
  /\ bgRuns' = Without(bgRuns, i)
  /\ UNCHANGED << collection, gridCache, warmupFired, lastComplete, cachedResp, gridReq,
                  gridResp, alive, reconnectTimer, timers, connecting, call >>

\* The loop of run i is over (cursor exhausted, or closed after the break):
\* cells, sort, gridCache.set, return true, finally.
BgFinish(i) ==
  /\ alive
  /\ i \in 1..Len(bgRuns)
  /\ \/ bgRuns[i].pc = "scan" /\ bgRuns[i].pos = bgRuns[i].n
     \/ bgRuns[i].pc = "brk"
  /\ gridCache' = CacheSet(gridCache, bgRuns[i].sizeDeg, SnapshotOf(bgRuns[i], bgRuns[i].cap))
  /\ lastComplete' = CacheSet(lastComplete, bgRuns[i].sizeDeg, SnapshotOf(bgRuns[i], bgRuns[i].cap))
  /\ ret' = Returned("done", bgRuns[i].sizeDeg)
  /\ isComputingCache' = FALSE
  /\ bgRuns' = Without(bgRuns, i)
  /\ UNCHANGED << collection, warmupFired, cachedResp, gridReq, gridResp, alive, reconnectTimer,
                timers, connecting, call >>

\* BgFail without the finally: the flag stays set.
BgFail_KeepLock(i) ==
  /\ alive
  /\ i \in 1..Len(bgRuns)
  /\ bgRuns[i].pc = "scan"
  /\ ret' = Returned("failed", bgRuns[i].sizeDeg)
  /\ bgRuns' = Without(bgRuns, i)
  /\ UNCHANGED << collection, gridCache, isComputingCache, warmupFired, lastComplete,
                  cachedResp, gridReq, gridResp, alive, reconnectTimer, timers, connecting, call >>

\* BgFail that puts what the run had accumulated when the fetch rejected.
BgFail_PutPartial(i) ==
  /\ alive
  /\ i \in 1..Len(bgRuns)
  /\ bgRuns[i].pc = "scan"
  /\ gridCache' = CacheSet(gridCache, bgRuns[i].sizeDeg, SnapshotOf(bgRuns[i], bgRuns[i].cap))
  /\ ret' = Returned("failed", bgRuns[i].sizeDeg)
  /\ isComputingCache' = FALSE
  /\ bgRuns' = Without(bgRuns, i)
  /\ UNCHANGED << collection, warmupFired, lastComplete, cachedResp, gridReq,
                  gridResp, alive, reconnectTimer, timers, connecting, call >>

\* BgFail that drops the entry of the run's cell size in the catch.
BgFail_Evict(i) ==
  /\ alive
  /\ i \in 1..Len(bgRuns)
  /\ bgRuns[i].pc = "scan"
  /\ ret' = Returned("failed", bgRuns[i].sizeDeg)
  /\ isComputingCache' = FALSE
  /\ gridCache' = [x \in (DOMAIN gridCache) \ {bgRuns[i].sizeDeg} |-> gridCache[x]]
  /\ bgRuns' = Without(bgRuns, i)
  /\ UNCHANGED << collection, warmupFired, lastComplete, cachedResp, gridReq, gridResp,
                  alive, reconnectTimer, timers, connecting, call >>

\* BgFail that retries at once: a fresh cursor in place of the failed one, the
\* flag still set.
BgFail_Retry(i) ==
  /\ alive
  /\ i \in 1..Len(bgRuns)
  /\ bgRuns[i].pc = "scan"
  /\ ret' = Returned("failed", bgRuns[i].sizeDeg)
  /\ \E n \in 0..MaxLen :
       bgRuns' = [bgRuns EXCEPT ![i] = NewScan(bgRuns[i].sizeDeg, bgRuns[i].cap, n)]
  /\ UNCHANGED << collection, gridCache, isComputingCache, warmupFired, lastComplete,
                  cachedResp, gridReq, gridResp, alive, reconnectTimer, timers, connecting, call >>

\* A fetch of run i rejects: catch, return false, finally.
BgFail(i) ==
  /\ alive
  /\ i \in 1..Len(bgRuns)
  /\ bgRuns[i].pc = "scan"
  /\ ret' = Returned("failed", bgRuns[i].sizeDeg)
  /\ isComputingCache' = FALSE
  /\ bgRuns' = Without(bgRuns, i)
  /\ UNCHANGED << collection, gridCache, warmupFired, lastComplete, cachedResp, gridReq,
                  gridResp, alive, reconnectTimer, timers, connecting, call >>

\* ------------------------------------------------------- cache lookup
NoResp == [status |-> 0]

\* String(Number.isFinite(sizeDeg) && sizeDeg > 0 ? sizeDeg : 0.25)
CachedKey(q) ==
  LET sizeDeg == NumberOr(q, DefaultSizeDeg)
  IN  IF sizeDeg.fin /\ sizeDeg.v > 0 THEN sizeDeg.v ELSE DefaultSizeDeg

\* CachedResponse that takes an entry without cells for a missing one.
CachedResponse_EmptyIsMiss(key) ==
  IF key \in DOMAIN gridCache /\ gridCache[key].cells # << >>
  THEN [status |-> 200, cached |-> TRUE, sizeDeg |-> key,
        cells |-> gridCache[key].cells, scanned |-> gridCache[key].scanned,
        capped |-> gridCache[key].capped]
  ELSE [status |-> 200, cached |-> FALSE, computing |-> isComputingCache,
        sizeDeg |-> key]

\* The response of the cached endpoint for key, from the cache and the flag.
CachedResponse(key) ==
  IF key \in DOMAIN gridCache
  THEN [status |-> 200, cached |-> TRUE, sizeDeg |-> key,
        cells |-> gridCache[key].cells, scanned |-> gridCache[key].scanned,
        capped |-> gridCache[key].capped]
  ELSE [status |-> 200, cached |-> FALSE, computing |-> isComputingCache,
        sizeDeg |-> key]

\* GetCachedGrid that starts the computation of an entry it does not find.
GetCachedGrid_Trigger(q) ==
  /\ alive
  /\ cachedResp' = CachedResponse(CachedKey(q))
  /\ IF CachedKey(q) \notin DOMAIN gridCache /\ ~isComputingCache /\ getCollection
     THEN /\ isComputingCache' = TRUE
          /\ \E n \in 0..MaxLen :
               bgRuns' = Append(bgRuns, NewScan(CachedKey(q), ScanCap, n))
     ELSE UNCHANGED << isComputingCache, bgRuns >>
  /\ UNCHANGED << collection, gridCache, warmupFired, lastComplete, ret,
                  gridReq, gridResp, alive, reconnectTimer, timers, connecting, call >>

\* GET /api/coords/grid/cached: { cached: true, sizeDeg, ...item } or
\* { cached: false, computing, sizeDeg }.
GetCachedGrid(q) ==
  /\ alive
  /\ cachedResp' = CachedResponse(CachedKey(q))
  /\ UNCHANGED << collection, gridCache, isComputingCache, warmupFired, bgRuns, lastComplete, ret,
                  gridReq, gridResp, alive, reconnectTimer, timers, connecting, call >>

\* ------------------------------------------------ on-demand aggregation
Idle == [pc |-> "idle"]

\* res.status(500).send(...): before the try, and in the catch.
NotConnected == [status |-> 500, body |-> "connexion pas encore etablie"]
AggregationError == [status |-> 500, body |-> "erreur agregation"]

\* res.json({ bbox, sizeDeg, cells, scanned, capped }) from the request's locals.
GridBody(r) ==
  LET snap == SnapshotOf(r, r.cap) IN
    [status |-> 200, sizeDeg |-> r.sizeDeg, cells |-> snap.cells,
     scanned |-> snap.scanned, capped |-> snap.capped]

\* GridSizeDeg that takes the default for every value outside [0.005, 10].
GridSizeDeg_DefaultOutside(q) ==
  LET sizeDeg == NumberOr(q.sizeDeg, OnDemandSizeDeg) IN
  IF ~sizeDeg.fin \/ sizeDeg.v < MinSizeDeg \/ sizeDeg.v > MaxSizeDeg
  THEN OnDemandSizeDeg
  ELSE sizeDeg.v

\* sizeDeg of the request: default 1.0, then the clamp.
GridSizeDeg(q) ==
  LET sizeDeg == NumberOr(q.sizeDeg, OnDemandSizeDeg)
      s == IF ~sizeDeg.fin \/ sizeDeg.v <= 0 THEN OnDemandSizeDeg ELSE sizeDeg.v
  IN  Max(MinSizeDeg, Min(s, MaxSizeDeg))

\* maxDocs of the request: default 35000000.
GridMaxDocs(q) ==
  LET maxDocs == NumberOr(q.maxDocs, ScanCap)
  IN  IF ~maxDocs.fin \/ maxDocs.v <= 0 THEN ScanCap ELSE maxDocs.v

\* south, west, north, east = Number(req.query.x ?? default), and hasBbox.
GridBbox(q) ==
  LET south == NumberOr(q.south, 0 - LatOffset)
      west == NumberOr(q.west, 0 - LngOffset)
      north == NumberOr(q.north, LatOffset)
      east == NumberOr(q.east, LngOffset)
  IN  [hasBbox |-> /\ south.fin /\ west.fin /\ north.fin /\ east.fin
                   /\ south.v <= north.v /\ west.v <= east.v,
       south |-> south.v, west |-> west.v, north |-> north.v, east |-> east.v]

\* The locals of the request at cursor creation: those of a scan and the bbox.
NewGridScan(q, n) ==
  LET b == GridBbox(q) IN
  [sizeDeg |-> GridSizeDeg(q), cap |-> GridMaxDocs(q), n |-> n, pos |-> 0, scanned |-> 0,
   map |-> << >>, pc |-> "scan",
   hasBbox |-> b.hasBbox, south |-> b.south, west |-> b.west, north |-> b.north,
   east |-> b.east]

\* lat < south || lat > north || lng < west || lng > east
OutsideBbox(r, doc) ==
  \/ Lt(doc.decimalLatitude, Fin(r.south))
  \/ Gt(doc.decimalLatitude, Fin(r.north))
  \/ Lt(doc.decimalLongitude, Fin(r.west))
  \/ Gt(doc.decimalLongitude, Fin(r.east))

\* The body of the request's loop after scanned++ and the cap: the typeof
\* test, the bbox test, the accumulation.
GridAccumulate(r, doc, s) ==
  IF /\ doc.decimalLatitude.num /\ doc.decimalLongitude.num
     /\ r.hasBbox /\ OutsideBbox(r, doc)
  THEN [r EXCEPT !.scanned = s, !.pos = r.pos + 1]
  ELSE Accumulate(r, doc, s)

\* One turn of the request's `for await` body on a fetched document.
GridScanDoc(r, doc) ==
  LET s == r.scanned + 1 IN
  IF s > r.cap
  THEN [r EXCEPT !.scanned = s, !.pos = r.pos + 1, !.pc = "brk"]
  ELSE GridAccumulate(r, doc, s)

\* GET /api/coords/grid up to its first await: 500 without a collection, else
\* the parameters and the cursor.
GridRequest(q) ==
  /\ alive
  /\ gridReq = Idle
  /\ IF ~getCollection
     THEN /\ gridResp' = NotConnected
          /\ UNCHANGED gridReq
     ELSE /\ \E n \in 0..MaxLen : gridReq' = NewGridScan(q, n)
          /\ gridResp' = NoResp
  /\ UNCHANGED << collection, gridCache, isComputingCache, warmupFired, bgRuns, lastComplete, ret,
                  cachedResp, alive, reconnectTimer, timers, connecting, call >>

\* GridScan with `scanned` declared once for all requests: the turn of one
\* request also counts in the other request under way.
GridScan_SharedScanned ==
  /\ alive
  /\ gridReq # Idle
  /\ gridReq.pc = "scan"
  /\ gridReq.pos < gridReq.n
  /\ \E doc \in Docs : gridReq' = GridScanDoc(gridReq, doc)
  /\ call' = IF call.pc = "fold" THEN [call EXCEPT !.run.scanned = @ + 1] ELSE call
  /\ UNCHANGED << collection, gridCache, isComputingCache, warmupFired, bgRuns, lastComplete, ret,
                  cachedResp, gridResp, alive, reconnectTimer, timers, connecting >>

\* The request's cursor delivers a document.
GridScan ==
  /\ alive
  /\ gridReq # Idle
  /\ gridReq.pc = "scan"
  /\ gridReq.pos < gridReq.n
  /\ \E doc \in Docs : gridReq' = GridScanDoc(gridReq, doc)
  /\ UNCHANGED << collection, gridCache, isComputingCache, warmupFired, bgRuns, lastComplete, ret,
                  cachedResp, gridResp, alive, reconnectTimer, timers, connecting, call >>

\* GridFinish that also stores what it computed in gridCache.
GridFinish_Memo ==
  /\ alive
  /\ gridReq # Idle
  /\ \/ gridReq.pc = "scan" /\ gridReq.pos = gridReq.n
     \/ gridReq.pc = "brk"
  /\ gridResp' = GridBody(gridReq)
  /\ gridCache' = CacheSet(gridCache, gridReq.sizeDeg, SnapshotOf(gridReq, gridReq.cap))
  /\ gridReq' = Idle
  /\ UNCHANGED << collection, isComputingCache, warmupFired, bgRuns, lastComplete, ret,
                  cachedResp, alive, reconnectTimer, timers, connecting, call >>

\* The loop is over: res.json({ bbox, sizeDeg, cells, scanned, capped }).
GridFinish ==
  /\ alive
  /\ gridReq # Idle
  /\ \/ gridReq.pc = "scan" /\ gridReq.pos = gridReq.n
     \/ gridReq.pc = "brk"
  /\ gridResp' = GridBody(gridReq)
  /\ gridReq' = Idle
  /\ UNCHANGED << collection, gridCache, isComputingCache, warmupFired, bgRuns, lastComplete, ret,
                  cachedResp, alive, reconnectTimer, timers, connecting, call >>

\* GridFail that answers with what it had accumulated when the fetch rejected.
GridFail_Partial ==
  /\ alive
  /\ gridReq # Idle
  /\ gridReq.pc = "scan"
  /\ gridResp' = GridBody(gridReq)
  /\ gridReq' = Idle
  /\ UNCHANGED << collection, gridCache, isComputingCache, warmupFired, bgRuns, lastComplete, ret,
                  cachedResp, alive, reconnectTimer, timers, connecting, call >>

\* A fetch rejects: catch, res.status(500).
GridFail ==
  /\ alive
  /\ gridReq # Idle
  /\ gridReq.pc = "scan"
  /\ gridResp' = AggregationError
  /\ gridReq' = Idle
  /\ UNCHANGED << collection, gridCache, isComputingCache, warmupFired, bgRuns, lastComplete, ret,
                  cachedResp, alive, reconnectTimer, timers, connecting, call >>

\* ------------------------------------------- functions on drawn inputs
\* No function is under evaluation.
NoCall == [pc |-> "none"]

\* The sequences over S of length at most n.
SeqsUpTo(S, n) == UNION { [1..m -> S] : m \in 0..n }

\* A document with its scientificName (which the projection of the two scans
\* leaves out).
Named(doc, name) == [doc EXCEPT !.scientificName = name]

\* Documents of a stream whose content is drawn beforehand: two points of the
\* same cell, a third elsewhere, a point north of the pole, and coordinates
\* that are NaN, infinite, or not numbers.
FoldDocs ==
  { Named(Doc(Num(-10100), Num(-50200)), "Panthera onca"),
    Named(Doc(Num(-10050), Num(-50150)), " panthera ONCA "),
    Named(Doc(Num(10000), Num(10000)), "Ara macao"),
    Doc(Num(95000), Num(10000)),
    Doc(NumNaN, Num(10000)),
    Doc(Num(10000), NumInfinity),
    Doc(NotNum, Num(10000)) }

\* Caps of the drawn scans: one that cuts the longest stream, one that does not.
FoldCaps == { FoldLen - 1, FoldLen + 1 }

\* Requests of the drawn on-demand scans: the whole world, a bbox around the
\* first two documents, a malformed bbox (south > north).
FoldQueries ==
  { GridQuery(Given(DefaultSizeDeg), Given(FoldLen - 1)),
    [GridQuery(Given(DefaultSizeDeg), Given(FoldLen + 1)) EXCEPT
       !.south = Given(-20000), !.north = Given(0), !.west = Given(-60000), !.east = Given(0)],
    [GridQuery(Given(DefaultSizeDeg), Given(FoldLen + 1)) EXCEPT
       !.south = Given(10000), !.north = Given(-10000)] }

\* A scan of either path on a stream known in advance.
FoldInputs ==
  { [pc |-> "fold", path |-> "bg", stream |-> st,
     run |-> NewScan(DefaultSizeDeg, cap, Len(st)), out |-> NoResp] :
       st \in SeqsUpTo(FoldDocs, FoldLen), cap \in FoldCaps }
  \cup
  { [pc |-> "fold", path |-> "grid", stream |-> st, q |-> q,
     run |-> NewGridScan(q, Len(st)), out |-> NoResp] :
       st \in SeqsUpTo(FoldDocs, FoldLen), q \in FoldQueries }

\* A second on-demand request, sent while the other runs are under way; the
\* documents its cursor will deliver are drawn when the cursor is created.
RunStreams == [1..(MaxLen - 1) -> { doc \in Docs : doc.decimalLatitude.num }]

RunInputs ==
  { [pc |-> "fold", path |-> "grid", stream |-> st, q |-> GridQuery(Absent, Given(3)),
     run |-> NewGridScan(GridQuery(Absent, Given(3)), Len(st)), out |-> NoResp] :
       st \in RunStreams }

RunRequest ==
  /\ alive
  /\ call = NoCall
  /\ getCollection
  /\ call' \in RunInputs
  /\ UNCHANGED << collection, gridCache, isComputingCache, warmupFired, bgRuns, lastComplete,
                  ret, cachedResp, gridReq, gridResp, alive, reconnectTimer, timers, connecting >>

\* The next turn of the loop, on the next document of the stream.
FoldScan ==
  /\ call.pc = "fold"
  /\ call.run.pc = "scan"
  /\ call.run.pos < call.run.n
  /\ LET doc == call.stream[call.run.pos + 1] IN
       call' = [call EXCEPT !.run = IF call.path = "bg"
                                    THEN ScanDoc(call.run, doc, call.run.cap)
                                    ELSE GridScanDoc(call.run, doc)]
  /\ UNCHANGED << collection, gridCache, isComputingCache, warmupFired, bgRuns, lastComplete,
                  ret, cachedResp, gridReq, gridResp, alive, reconnectTimer, timers, connecting >>

\* The loop is over: the snapshot of the refresh, the body of the response.
FoldFinish ==
  /\ call.pc = "fold"
  /\ \/ call.run.pc = "scan" /\ call.run.pos = call.run.n
     \/ call.run.pc = "brk"
  /\ call' = [call EXCEPT !.pc = "folded",
                          !.out = IF call.path = "bg"
                                  THEN SnapshotOf(call.run, call.run.cap)
                                  ELSE GridBody(call.run)]
  /\ UNCHANGED << collection, gridCache, isComputingCache, warmupFired, bgRuns, lastComplete,
                  ret, cachedResp, gridReq, gridResp, alive, reconnectTimer, timers, connecting >>

\* sizeDeg, maxDocs and bbox parameters a request can carry.
ParamQueries ==
  { [sizeDeg |-> sz, maxDocs |-> md,
     south |-> b[1], west |-> Absent, north |-> b[2], east |-> Absent] :
       sz \in { Absent, GivenNaN, Given(-250), Given(0), Given(1), Given(MinSizeDeg),
                Given(DefaultSizeDeg), Given(MaxSizeDeg), Given(20000) },
       md \in { Absent, GivenNaN, Given(0), Given(3) },
       b \in { << Absent, Absent >>, << Given(-20000), Given(0) >>,
               << Given(10000), Given(-10000) >>, << GivenNaN, Absent >> } }

\* The handler reads the parameters of the request: bbox, sizeDeg, maxDocs.
ParseQuery ==
  /\ call.pc = "query"
  /\ call' = [pc |-> "parsed", q |-> call.q, run |-> NewGridScan(call.q, 0)]
  /\ UNCHANGED << collection, gridCache, isComputingCache, warmupFired, bgRuns, lastComplete,
                  ret, cachedResp, gridReq, gridResp, alive, reconnectTimer, timers, connecting >>

\* Latitudes, longitudes and cell sizes of the points given to the discretizer:
\* doubles, some of them south of -90 or west of -180.
CellLats == { v \in { -90100, -10100, -1, 0, 10000, 89999 } : Fl(v) = v }
CellLngs == { v \in { -180100, -50200, -1, 0, 10000, 179998 } : Fl(v) = v }
CellSizes == { MinSizeDeg, DefaultSizeDeg, OnDemandSizeDeg, MaxSizeDeg }

\* cellKeyFromLatLng(lat, lng) on the drawn point.
KeyOfPoint ==
  /\ call.pc = "point"
  /\ call' = [pc |-> "key", lat |-> call.lat, lng |-> call.lng, sizeDeg |-> call.sizeDeg,
              key |-> cellKeyFromLatLng(Fin(call.lat), Fin(call.lng), call.sizeDeg)]
  /\ UNCHANGED << collection, gridCache, isComputingCache, warmupFired, bgRuns, lastComplete,
                  ret, cachedResp, gridReq, gridResp, alive, reconnectTimer, timers, connecting >>

\* boundsFromKey(key) on the key of the point.
BoundsOfKey ==
  /\ call.pc = "key"
  /\ call' = [pc |-> "bounds", lat |-> call.lat, lng |-> call.lng, sizeDeg |-> call.sizeDeg,
              key |-> call.key, bounds |-> boundsFromKey(call.key, call.sizeDeg)]
  /\ UNCHANGED << collection, gridCache, isComputingCache, warmupFired, bgRuns, lastComplete,
                  ret, cachedResp, gridReq, gridResp, alive, reconnectTimer, timers, connecting >>

\* ------------------------------------------------------ client (script.js)
\* fetchWithCancel(url) for the on-demand endpoint: a controller is active and
\* the request is on its way.
fetchWithCancel(q) ==
  /\ call = NoCall
  /\ call' = [pc |-> "pending", q |-> q, seen |-> 0]
  /\ UNCHANGED << collection, gridCache, isComputingCache, warmupFired, bgRuns, lastComplete,
                  ret, cachedResp, gridReq, gridResp, alive, reconnectTimer, timers, connecting >>

\* The request of the pending fetch reaches the server: the handler runs up to
\* its first await.
GridArrives ==
  /\ call.pc = "pending"
  /\ gridResp = NoResp
  /\ GridRequest(call.q)

\* The response reaches the client: the fetch settles and its controller is
\* deleted from the active ones.
FetchSettles ==
  /\ call.pc = "pending"
  /\ gridResp # NoResp
  /\ call' = [call EXCEPT !.pc = "settled"]
  /\ UNCHANGED << collection, gridCache, isComputingCache, warmupFired, bgRuns, lastComplete,
                  ret, cachedResp, gridReq, gridResp, alive, reconnectTimer, timers, connecting >>

\* Click on the cancel button: every active controller is aborted, which closes
\* the connection.  The server has no listener for it: none of its variables
\* changes.  `seen` remembers how many documents the handler had fetched.
CancelClick ==
  /\ call.pc = "pending"
  /\ call' = [call EXCEPT !.pc = "aborted",
                          !.seen = IF gridReq = Idle THEN 0 ELSE gridReq.pos]
  /\ UNCHANGED << collection, gridCache, isComputingCache, warmupFired, bgRuns, lastComplete,
                  ret, cachedResp, gridReq, gridResp, alive, reconnectTimer, timers, connecting >>

\* ------------------------------------------------------ specification
\* The server after its construction.
InitServer ==
  /\ collection = "unset"
  /\ gridCache = [x \in {} |-> 0]
  /\ lastComplete = [x \in {} |-> 0]
  /\ isComputingCache = FALSE
  /\ warmupFired = FALSE
  /\ bgRuns = << >>
  /\ ret = Returned("none", 0)
  /\ cachedResp = NoResp
  /\ gridReq = Idle
  /\ gridResp = NoResp
  /\ alive = TRUE
  /\ reconnectTimer = FALSE
  /\ timers = << >>
  /\ connecting = << 1 >>

Init ==
  /\ InitServer
  /\ call = NoCall

\* The cache engine: the connection, the timers, the background runs and the
\* lookups.
Next ==
  \/ connectToMongo
  \/ WarmupFire
  \/ PeriodicFire
  \/ \E i \in 1..MaxRuns : BgScan(i)
  \/ \E i \in 1..MaxRuns : BgFinish(i)
  \/ \E i \in 1..MaxRuns : BgFail(i)
  \/ \E q \in CachedQueries : GetCachedGrid(q)

Spec == Init /\ [][Next]_vars

\* The two aggregation paths side by side: the background runs and the
\* on-demand requests, interleaved at every fetch.
NextAgg ==
  \/ connectToMongo
  \/ WarmupFire
  \/ PeriodicFire
  \/ \E i \in 1..MaxRuns : BgScan(i)
  \/ \E i \in 1..MaxRuns : BgFinish(i)
  \/ \E i \in 1..MaxRuns : BgFail(i)
  \/ \E q \in GridQueries : GridRequest(q)
  \/ GridScan
  \/ GridFinish
  \/ GridFail

SpecAgg == Init /\ [][NextAgg]_vars

\* The refresh with computeGlobalGrid called for any cell size.
NextCall ==
  \/ connectToMongo
  \/ WarmupFire
  \/ PeriodicFire
  \/ CallComputeGlobalGrid
  \/ \E i \in 1..MaxRuns : BgScan(i)
  \/ \E i \in 1..MaxRuns : BgFinish(i)
  \/ \E i \in 1..MaxRuns : BgFail(i)

SpecCall == Init /\ [][NextCall]_vars

\* A step of a background run.  The event loop resumes a run whenever its
\* pending fetch settles, and the stream ends or fails: weak fairness.
BgStep == \E i \in 1..MaxRuns : BgScan(i) \/ BgFinish(i) \/ BgFail(i)

FairSpec == Spec /\ WF_vars(BgStep)

\* The cache engine with its timers: setTimeout fires once the delay has
\* elapsed and setInterval fires again and again, as long as the process lives.
FairTimers == FairSpec /\ WF_vars(WarmupFire) /\ WF_vars(PeriodicFire)

\* The connection to the record store: attempts, failures, closes and the
\* reconnect timer.
NextDb ==
  \/ connectToMongo
  \/ ConnectFails
  \/ ClientClose
  \/ ReconnectFires

SpecDb == Init /\ [][NextDb]_vars

\* Node fires a timeout once its delay has elapsed.
FairDb == SpecDb /\ WF_vars(ReconnectFires)

\* One on-demand request of a client that may cancel it at any moment.
NextCancel ==
  \/ connectToMongo
  \/ \E q \in GridQueries : fetchWithCancel(q)
  \/ GridArrives
  \/ FetchSettles
  \/ CancelClick
  \/ GridScan
  \/ GridFinish
  \/ GridFail

SpecCancel == Init /\ [][NextCancel]_vars

\* Three runs side by side: the background refresh, an on-demand request, and
\* a second on-demand request on a stream drawn beforehand, interleaved at
\* every fetch.
NextRuns ==
  \/ connectToMongo
  \/ WarmupFire
  \/ \E i \in 1..MaxRuns : BgScan(i)
  \/ \E i \in 1..MaxRuns : BgFinish(i)
  \/ \E q \in GridQueries : GridRequest(q)
  \/ GridScan
  \/ GridFinish
  \/ RunRequest
  \/ FoldScan
  \/ FoldFinish

SpecRuns == Init /\ [][NextRuns]_vars

\* The two scans as functions of their stream.
InitFold ==
  /\ InitServer
  /\ call \in FoldInputs

NextFold == FoldScan \/ FoldFinish

SpecFold == InitFold /\ [][NextFold]_vars

\* The parameters of the on-demand endpoint as a function of the query.
InitParams ==
  /\ InitServer
  /\ call \in { [pc |-> "query", q |-> q] : q \in ParamQueries }

SpecParams == InitParams /\ [][ParseQuery]_vars

\* The discretizer as a function of the point and the cell size.
InitCell ==
  /\ InitServer
  /\ call \in { [pc |-> "point", lat |-> lat, lng |-> lng, sizeDeg |-> sizeDeg] :
                  lat \in CellLats, lng \in CellLngs, sizeDeg \in CellSizes }

NextCell == KeyOfPoint \/ BoundsOfKey

SpecCell == InitCell /\ [][NextCell]_vars

\* ------------------------------------------------------------- claims
\* A call of computeGlobalGrid: a timer firing or a direct call.
Trigger == WarmupFire \/ PeriodicFire \/ CallComputeGlobalGrid

\* The background run i has left its loop or is about to (what BgFinish needs).
LoopOver(r) == (r.pc = "scan" /\ r.pos = r.n) \/ r.pc = "brk"

\* C1: at most one background run is in flight at any time, whatever the cell
\* sizes asked for, and it is in flight exactly while isComputingCache is set;
\* a call made while the flag is set starts no run and leaves the cache, the
\* flag and the locals of the run in flight as they were.
C1_SingleFlight ==
  /\ [](Len(bgRuns) <= 1 /\ (isComputingCache <=> Len(bgRuns) = 1))
  /\ [][(Trigger /\ isComputingCache) =>
          (/\ UNCHANGED << gridCache, isComputingCache, bgRuns >>
           /\ ret'.why = "skip")]_vars

\* A call for one cell size was skipped while a run for another size was in flight.
C1_Witness ==
  /\ Len(bgRuns) = 1
  /\ ret.why = "skip"
  /\ ret.sizeDeg # bgRuns[1].sizeDeg
  /\ bgRuns[1].pos >= 1

\* C2: a run that set the flag clears it: once set, isComputingCache is
\* eventually false again, and it is false right after every run that ends,
\* whether it put a snapshot or its stream failed.
C2_LockReleased ==
  /\ isComputingCache ~> ~isComputingCache
  /\ [][(\E i \in 1..MaxRuns : BgFinish(i) \/ BgFail(i)) => ~isComputingCache']_vars

\* A run failed after an earlier one had succeeded, and the flag is clear.
C2_Witness ==
  /\ ret.why = "failed"
  /\ ~isComputingCache
  /\ DefaultSizeDeg \in DOMAIN gridCache

\* C3: a lookup, at whatever point of a refresh, answers a miss or the snapshot
\* the last completed run built for that key, all three of cells, scanned and
\* capped; never the map or the counter of the run in progress.
C3_LookupSeesCompleteSnapshot ==
  [][\A q \in CachedQueries :
       (GetCachedGrid(q) /\ cachedResp'.cached) =>
         (/\ CachedKey(q) \in DOMAIN lastComplete
          /\ cachedResp'.cells = lastComplete[CachedKey(q)].cells
          /\ cachedResp'.scanned = lastComplete[CachedKey(q)].scanned
          /\ cachedResp'.capped = lastComplete[CachedKey(q)].capped)]_vars

\* A hit was answered and a run is in progress whose accumulation differs from it.
C3_Witness ==
  /\ cachedResp.status = 200
  /\ cachedResp.cached
  /\ Len(bgRuns) = 1
  /\ bgRuns[1].pos >= 1
  /\ bgRuns[1].pc = "scan"
  /\ cachedResp.scanned # bgRuns[1].scanned
  /\ cachedResp.cells # SortCells(CellsOf(bgRuns[1].map, bgRuns[1].sizeDeg))

\* C4: every snapshot either aggregator produces has scanned <= cap + 1 and
\* capped = (scanned >= cap), cap being the cap of the run that built it.
C4_CapBound ==
  [][/\ \A i \in 1..MaxRuns :
          BgFinish(i) =>
            LET snap == gridCache'[bgRuns[i].sizeDeg] IN
              /\ snap.scanned <= bgRuns[i].cap + 1
              /\ snap.capped = (snap.scanned >= bgRuns[i].cap)
     /\ GridFinish =>
          /\ gridResp'.scanned <= gridReq.cap + 1
          /\ gridResp'.capped = (gridResp'.scanned >= gridReq.cap)]_vars

\* Both paths have produced a snapshot that stopped one past the default cap.
C4_Witness ==
  /\ DefaultSizeDeg \in DOMAIN gridCache
  /\ gridCache[DefaultSizeDeg].scanned = ScanCap + 1
  /\ gridCache[DefaultSizeDeg].capped
  /\ gridResp.status = 200
  /\ gridResp.scanned = ScanCap + 1
  /\ gridResp.capped

\* C5: for a stream of N documents and cap c the snapshot reports
\* scanned = min(N, c + 1), the cursor has delivered exactly min(N, c + 1)
\* documents when the run ends, and N > c gives capped = true.
C5_ScannedIsMin ==
  [][/\ \A i \in 1..MaxRuns :
          BgFinish(i) =>
            LET r == bgRuns[i]
                snap == gridCache'[r.sizeDeg] IN
              /\ snap.scanned = Min(r.n, r.cap + 1)
              /\ r.pos = Min(r.n, r.cap + 1)
              /\ (r.n > r.cap => snap.capped)
     /\ GridFinish =>
          /\ gridResp'.scanned = Min(gridReq.n, gridReq.cap + 1)
          /\ gridReq.pos = Min(gridReq.n, gridReq.cap + 1)
          /\ (gridReq.n > gridReq.cap => gridResp'.capped)]_vars

\* A background run and an on-demand request have both left their loop at
\* document c + 1 of a longer stream.
C5_Witness ==
  /\ Len(bgRuns) = 1
  /\ bgRuns[1].pc = "brk"
  /\ bgRuns[1].n > bgRuns[1].cap + 1
  /\ bgRuns[1].pos = bgRuns[1].cap + 1
  /\ gridReq # Idle
  /\ gridReq.pc = "brk"
  /\ gridReq.n > gridReq.cap + 1
  /\ gridReq.pos = gridReq.cap + 1

\* C6: a run that consumed its whole stream without leaving the loop at the
\* cap, so that every document was looked at for accumulation, produces a
\* snapshot that is not flagged capped.
C6_CappedOnlyWhenCut ==
  [][/\ \A i \in 1..MaxRuns :
          (BgFinish(i) /\ bgRuns[i].pc = "scan") => ~gridCache'[bgRuns[i].sizeDeg].capped
     /\ (GridFinish /\ gridReq.pc = "scan") => ~gridResp'.capped]_vars

\* C7: a refresh triggered while getCollection returns nothing returns at
\* once: every cache entry, the flag and the runs are as before.
C7_UnavailableLeavesAllUnchanged ==
  [][((WarmupFire \/ PeriodicFire) /\ ~getCollection) =>
       (/\ UNCHANGED << gridCache, isComputingCache, bgRuns >>
        /\ ret'.why = "unavailable")]_vars

\* The warm-up fired before the connection was there.
C7_Witness ==
  /\ ret.why = "unavailable"
  /\ warmupFired
  /\ ~isComputingCache
  /\ DOMAIN gridCache = {}

\* C8: when a fetch of a background run rejects, nothing is put: every cache
\* entry is what it was before the failure.
C8_FailedRunPutsNothing ==
  [][(\E i \in 1..MaxRuns : BgFail(i)) => gridCache' = gridCache]_vars

\* A run failed and the entry of an earlier run is still there.
C8_Witness ==
  /\ ret.why = "failed"
  /\ DefaultSizeDeg \in DOMAIN gridCache
  /\ gridCache = lastComplete
  /\ Len(bgRuns) = 0

\* C9: an on-demand request that finds no collection, or whose stream fails,
\* is answered 500 with no cells, scanned or capped, and the process lives on.
C9_OnDemandFailureIsAnError ==
  [][/\ alive'
     /\ GridFail => (gridResp'.status = 500 /\ DOMAIN gridResp' = {"status", "body"})
     /\ (gridReq = Idle /\ ~getCollection /\ gridResp' # gridResp) =>
          (gridResp'.status = 500 /\ DOMAIN gridResp' = {"status", "body"}
           /\ gridReq' = Idle)]_vars

\* The stream of an on-demand request failed and the request got the 500 of the catch.
C9_Witness ==
  /\ gridResp = AggregationError
  /\ gridReq = Idle
  /\ alive

\* C10: a lookup is always answered at once, and the step that answers it
\* starts no run and changes neither the flag nor any cache entry.
C10_LookupReadOnly ==
  /\ [](\A q \in CachedQueries : ENABLED GetCachedGrid(q))
  /\ [][cachedResp' # cachedResp =>
          UNCHANGED << gridCache, isComputingCache, bgRuns, collection, warmupFired >>]_vars

\* A miss was answered while a refresh was in progress.
C10_Witness ==
  /\ cachedResp.status = 200
  /\ ~cachedResp.cached
  /\ cachedResp.computing
  /\ isComputingCache
  /\ Len(bgRuns) = 1

\* C11: every answer of the cached endpoint, hit or miss, carries the booleans
\* cached and computing, and computing is the value isComputingCache had when
\* the lookup was made.
C11_LookupCarriesComputing ==
  [][cachedResp' # cachedResp =>
       (/\ {"cached", "computing"} \subseteq DOMAIN cachedResp'
        /\ cachedResp'.cached \in BOOLEAN
        /\ cachedResp'.computing = isComputingCache)]_vars

\* C12: a cell size that has an entry keeps one: no step removes an entry, and
\* every lookup for a size that has an entry is a hit.
C12_EntryNeverRemoved ==
  [][/\ DOMAIN gridCache \subseteq DOMAIN gridCache'
     /\ \A q \in CachedQueries :
          (GetCachedGrid(q) /\ CachedKey(q) \in DOMAIN gridCache) =>
            (cachedResp'.cached /\ cachedResp'.cells = gridCache[CachedKey(q)].cells)]_vars

\* The last refresh to return failed, the entry put before it is still there
\* and the last lookup was a hit.
C12_Witness ==
  /\ ret.why = "failed"
  /\ DefaultSizeDeg \in DOMAIN gridCache
  /\ cachedResp.status = 200
  /\ cachedResp.cached

\* C13: when a run completes, the entry of its cell size becomes exactly the
\* snapshot of that run's own map and counter, whatever the entry was before,
\* and the entries of the other cell sizes stay as they were.
C13_RefreshReplacesEntry ==
  [][\A i \in 1..MaxRuns :
       BgFinish(i) =>
         LET r == bgRuns[i] IN
         /\ DOMAIN gridCache' = (DOMAIN gridCache) \cup {r.sizeDeg}
         /\ gridCache'[r.sizeDeg].scanned = r.scanned
         /\ gridCache'[r.sizeDeg].capped = (r.scanned >= r.cap)
         /\ Len(gridCache'[r.sizeDeg].cells) = Len(r.map)
         /\ { << c.key, c.count >> : c \in { gridCache'[r.sizeDeg].cells[x] :
                                                x \in 1..Len(r.map) } }
              = { << r.map[x].key, r.map[x].count >> : x \in 1..Len(r.map) }
         /\ \A k \in (DOMAIN gridCache) \ {r.sizeDeg} : gridCache'[k] = gridCache[k]]_vars

\* Both cell sizes have an entry; the last run to return completed for 0.25 on
\* an empty stream, and its empty snapshot is the entry, next to the non-empty
\* entry of the other size.
C13_Witness ==
  /\ DOMAIN gridCache = { DefaultSizeDeg, OnDemandSizeDeg }
  /\ ret = Returned("done", DefaultSizeDeg)
  /\ gridCache[DefaultSizeDeg].scanned = 0
  /\ gridCache[OnDemandSizeDeg].scanned > 0
  /\ gridCache[OnDemandSizeDeg].cells # << >>

\* C14: no step of an on-demand request, successful or failed, changes
\* gridCache, isComputingCache or a background run, and at every step of a
\* refresh that holds the flag the endpoint, if it has no request in flight,
\* accepts one.
C14_OnDemandLeavesCacheAlone ==
  [][/\ (gridReq = Idle /\ isComputingCache /\ bgRuns' # bgRuns) =>
          ENABLED (\E q \in GridQueries : GridRequest(q))
     /\ (gridReq' # gridReq \/ gridResp' # gridResp) =>
          UNCHANGED << gridCache, isComputingCache, bgRuns, lastComplete >>]_vars

\* A request was answered with a grid while a refresh, under way, holds the
\* flag; the cache is still empty.
C14_Witness ==
  /\ gridResp.status = 200
  /\ gridResp.scanned >= 1
  /\ gridReq = Idle
  /\ isComputingCache
  /\ Len(bgRuns) = 1
  /\ bgRuns[1].pos >= 1
  /\ DOMAIN gridCache = {}

\* C15: the cell size an on-demand request uses lies in [0.005, 10], and it is
\* the default whenever the requested sizeDeg is not finite or lies outside
\* that range.
C15_SizeInRangeElseDefault ==
  call.pc = "parsed" =>
    LET asked == NumberOr(call.q.sizeDeg, OnDemandSizeDeg) IN
    /\ call.run.sizeDeg >= MinSizeDeg
    /\ call.run.sizeDeg <= MaxSizeDeg
    /\ (~asked.fin \/ asked.v < MinSizeDeg \/ asked.v > MaxSizeDeg) =>
          call.run.sizeDeg = OnDemandSizeDeg

\* C15, amended: the cell size used lies in [0.005, 10]; it is the default when
\* the requested sizeDeg is not finite or not positive, the nearest end of the
\* range when the requested value is positive and outside it, and the
\* requested value otherwise.
C15_SizeClamped ==
  call.pc = "parsed" =>
    LET asked == NumberOr(call.q.sizeDeg, OnDemandSizeDeg) IN
    /\ call.run.sizeDeg >= MinSizeDeg
    /\ call.run.sizeDeg <= MaxSizeDeg
    /\ (~asked.fin \/ asked.v <= 0) => call.run.sizeDeg = OnDemandSizeDeg
    /\ (asked.fin /\ asked.v > 0 /\ asked.v < MinSizeDeg) => call.run.sizeDeg = MinSizeDeg
    /\ (asked.fin /\ asked.v > MaxSizeDeg) => call.run.sizeDeg = MaxSizeDeg
    /\ (asked.fin /\ asked.v >= MinSizeDeg /\ asked.v <= MaxSizeDeg) =>
          call.run.sizeDeg = asked.v

\* A request that asked for 20 degrees was given 10.
C15_Witness ==
  /\ call.pc = "parsed"
  /\ call.q.sizeDeg = Given(20000)
  /\ call.run.sizeDeg = MaxSizeDeg

\* A coordinate that is missing, not a number, NaN or infinite.
NotFinite(c) == ~c.num \/ c.k # "fin"

\* The document the next turn of the drawn scan fetches.
NextDoc == call.stream[call.run.pos + 1]

\* C16: in both paths a document whose latitude or longitude is not a finite
\* number adds one to scanned and nothing to any cell.
C16_NonFiniteCountedNotAccumulated ==
  [][(/\ FoldScan
      /\ \/ NotFinite(NextDoc.decimalLatitude)
         \/ NotFinite(NextDoc.decimalLongitude)) =>
       (/\ call'.run.scanned = call.run.scanned + 1
        /\ call'.run.map = call.run.map)]_vars

\* The counts of a sequence of cells do not increase.
Sorted(cells) == \A x \in 1..(Len(cells) - 1) : cells[x].count >= cells[x + 1].count

\* C17: in every snapshot of either path the cells are in order of
\* non-increasing count.
C17_CellsSortedByCount ==
  call.pc = "folded" => Sorted(call.out.cells)

\* A refresh met a cell of one document before a cell of two, and its
\* snapshot lists them the other way round.
C17_Witness ==
  /\ call.pc = "folded"
  /\ call.path = "bg"
  /\ Len(call.run.map) = 2
  /\ call.run.map[1].count = 1
  /\ call.run.map[2].count = 2
  /\ call.out.cells[1].count = 2
  /\ call.out.cells[1].key = call.run.map[2].key

\* The documents of the drawn stream that were accumulated: fetched within the
\* cap, both coordinates of type number, and inside the bbox when the path has one.
AccumulatedDocs ==
  { x \in 1..Min(call.run.pos, call.run.cap) :
      /\ call.stream[x].decimalLatitude.num
      /\ call.stream[x].decimalLongitude.num
      /\ (call.path = "grid" /\ call.run.hasBbox) => ~OutsideBbox(call.run, call.stream[x]) }

\* The key of the x-th document of the drawn stream.
KeyOfDoc(x) ==
  cellKeyFromLatLng(call.stream[x].decimalLatitude, call.stream[x].decimalLongitude,
                    call.run.sizeDeg)

RECURSIVE SumOfCounts(_)
SumOfCounts(cells) == IF cells = << >> THEN 0 ELSE Head(cells).count + SumOfCounts(Tail(cells))

\* C18: a snapshot has one cell per key hit by an accumulated document and no
\* other, its keys are pairwise distinct, each count is at least 1 and is the
\* number of accumulated documents of that key, and the counts add up to the
\* number of accumulated documents.
C18_OneCellPerKey ==
  call.pc = "folded" =>
    LET cells == call.out.cells IN
    /\ \A x, y \in 1..Len(cells) : cells[x].key = cells[y].key => x = y
    /\ { cells[x].key : x \in 1..Len(cells) } = { KeyOfDoc(x) : x \in AccumulatedDocs }
    /\ \A x \in 1..Len(cells) :
         /\ cells[x].count >= 1
         /\ cells[x].count = Cardinality({ y \in AccumulatedDocs : KeyOfDoc(y) = cells[x].key })
    /\ SumOfCounts(cells) = Cardinality(AccumulatedDocs)

\* An on-demand request with a bbox scanned three documents, two of one cell
\* and one left out by the bbox, and answers one cell of count 2.
C18_Witness ==
  /\ call.pc = "folded"
  /\ call.path = "grid"
  /\ call.out.scanned = 3
  /\ Cardinality(AccumulatedDocs) = 2
  /\ Len(call.out.cells) = 1
  /\ call.out.cells[1].count = 2

\* C19: a background refresh in richness mode gives each cell the number of
\* distinct identities (scientificName, trimmed and case-folded) of its
\* accumulated documents: N documents of k distinct identities give k, and a
\* document whose identity is empty adds nothing.  Stated for the streams
\* whose documents all have finite coordinates.
C19_RichnessCountsDistinctIdentities ==
  (/\ call.pc = "folded"
   /\ call.path = "bg"
   /\ \A y \in 1..Len(call.stream) :
        /\ ~NotFinite(call.stream[y].decimalLatitude)
        /\ ~NotFinite(call.stream[y].decimalLongitude)) =>
    LET Normalized(name) ==
          CASE name = "Panthera onca" -> "panthera onca"
            [] name = " panthera ONCA " -> "panthera onca"
            [] name = "Ara macao" -> "ara macao"
            [] OTHER -> name
        cells == call.out.cells
    IN  \A x \in 1..Len(cells) :
          cells[x].count =
            Cardinality({ Normalized(call.stream[y].scientificName) :
                            y \in { z \in AccumulatedDocs : KeyOfDoc(z) = cells[x].key } }
                        \ { "" })

\* C20: for every point and every cell size > 0 the bounds read back from the
\* key of the point contain it: lat0 <= lat < lat0 + size and
\* lng0 <= lng < lng0 + size, south of -90 and west of -180 included.
C20_BoundsContainPoint ==
  call.pc = "bounds" =>
    /\ call.bounds[1][1].v <= call.lat
    /\ call.lat < call.bounds[2][1].v
    /\ call.bounds[1][2].v <= call.lng
    /\ call.lng < call.bounds[2][2].v

\* A step that starts a run: one more run in flight, the new one before its
\* first fetch, the others as they were.
StartsRun ==
  /\ Len(bgRuns') = Len(bgRuns) + 1
  /\ SubSeq(bgRuns', 1, Len(bgRuns)) = bgRuns
  /\ bgRuns'[Len(bgRuns')].pos = 0
  /\ bgRuns'[Len(bgRuns')].scanned = 0

\* A step of a run already in flight: one more document fetched by one run, or
\* one run gone.
ContinuesRuns ==
  \/ /\ Len(bgRuns') = Len(bgRuns)
     /\ \E i \in 1..Len(bgRuns) :
          /\ bgRuns'[i].pos = bgRuns[i].pos + 1
          /\ \A j \in 1..Len(bgRuns) : j # i => bgRuns'[j] = bgRuns[j]
  \/ \E i \in 1..Len(bgRuns) : bgRuns' = Without(bgRuns, i)

\* C21: a run is started only by a firing of the warm-up or periodic timer,
\* and a firing starts at most one; a firing that finds the flag set or no
\* collection starts none, and a step in which a run fails, or any other step
\* that is not a firing, starts none either: nothing is queued or retried.
C21_RunsStartOnlyAtFirings ==
  [][/\ bgRuns' # bgRuns =>
          \/ /\ StartsRun
             /\ WarmupFire \/ PeriodicFire
             /\ ~isComputingCache /\ getCollection
          \/ ContinuesRuns
     /\ (\E i \in 1..MaxRuns : BgFail(i)) =>
          (Len(bgRuns') = Len(bgRuns) - 1 /\ ~isComputingCache')]_vars

\* The timers have fired, the last run to return failed, and nothing is in
\* flight, cached or answered: the failed run left no other behind.
C21_Witness ==
  /\ warmupFired
  /\ ret.why = "failed"
  /\ collection = "ready"
  /\ bgRuns = << >>
  /\ ~isComputingCache
  /\ DOMAIN gridCache = {}
  /\ cachedResp = NoResp

\* C22: once the client of an on-demand request has cancelled, the handler
\* stops consuming the stream: it fetches at most the one document whose fetch
\* was pending when the connection closed.
C22_CancelStopsScan ==
  (call.pc = "aborted" /\ gridReq # Idle) => gridReq.pos <= call.seen + 1

\* The request q without its bbox parameters.
BboxOmitted(q) == [q EXCEPT !.south = Absent, !.west = Absent, !.north = Absent, !.east = Absent]

\* The locals of an on-demand request after its loop, run on the whole stream.
RECURSIVE GridScanAll(_, _)
GridScanAll(r, stream) ==
  IF r.pc = "scan" /\ r.pos < r.n
  THEN GridScanAll(GridScanDoc(r, stream[r.pos + 1]), stream)
  ELSE r

\* C23: an on-demand request whose bbox is malformed is answered 200 with the
\* cells, scanned and capped that the same request without bbox parameters
\* gets on the same stream.
C23_MalformedBboxAsOmitted ==
  (call.pc = "folded" /\ call.path = "grid" /\ ~GridBbox(call.q).hasBbox) =>
    /\ call.out.status = 200
    /\ call.out = GridBody(GridScanAll(NewGridScan(BboxOmitted(call.q), Len(call.stream)),
                                       call.stream))

\* C24: whatever the interleaving of a background refresh and two on-demand
\* requests, the request whose stream was drawn answers what its loop gives
\* on that stream alone, and a step of one run leaves the locals of the two
\* other runs as they were.
C24_RunsDoNotInterfere ==
  /\ [](call.pc = "folded" =>
          call.out = GridBody(GridScanAll(NewGridScan(call.q, Len(call.stream)), call.stream)))
  /\ [][/\ call' # call => UNCHANGED << gridReq, gridResp, bgRuns, gridCache >>
        /\ gridReq' # gridReq => UNCHANGED << call, bgRuns, gridCache >>
        /\ bgRuns' # bgRuns => UNCHANGED << call, gridReq, gridResp >>]_vars

\* The drawn request has answered two cells while a request with another
\* accumulation and a refresh are both in the middle of their stream.
C24_Witness ==
  /\ call.pc = "folded"
  /\ Len(call.out.cells) = 2
  /\ gridReq # Idle
  /\ gridReq.pos >= 1
  /\ Len(gridReq.map) = 1
  /\ Len(bgRuns) = 1
  /\ bgRuns[1].pos >= 1
  /\ bgRuns[1].pc = "scan"

\* south <= lat <= north and west <= lng <= east, for a document whose
\* coordinates are both finite numbers.
InsideBbox(r, doc) ==
  /\ ~NotFinite(doc.decimalLatitude)
  /\ ~NotFinite(doc.decimalLongitude)
  /\ r.south <= doc.decimalLatitude.v /\ doc.decimalLatitude.v <= r.north
  /\ r.west <= doc.decimalLongitude.v /\ doc.decimalLongitude.v <= r.east

EmptySnapshot == [cells |-> << >>, scanned |-> 0, capped |-> FALSE]

\* C26: a refresh whose stream is empty completes: it puts the snapshot with
\* no cells, scanned = 0 and capped = false and returns as done; a lookup
\* that finds this entry answers cached = true with it.
C26_EmptyStreamIsSuccess ==
  [][/\ \A i \in 1..MaxRuns :
          (BgFinish(i) /\ bgRuns[i].n = 0) =>
            (/\ gridCache'[bgRuns[i].sizeDeg] = EmptySnapshot
             /\ ret'.why = "done")
     /\ \A q \in CachedQueries :
          (/\ GetCachedGrid(q)
           /\ CachedKey(q) \in DOMAIN gridCache
           /\ gridCache[CachedKey(q)] = EmptySnapshot) =>
            (/\ cachedResp'.cached
             /\ cachedResp'.cells = << >>
             /\ cachedResp'.scanned = 0
             /\ ~cachedResp'.capped)]_vars

\* A refresh on an empty stream has completed and a lookup answered its
\* empty snapshot as a hit.
C26_Witness ==
  /\ ret = Returned("done", DefaultSizeDeg)
  /\ DefaultSizeDeg \in DOMAIN gridCache
  /\ gridCache[DefaultSizeDeg] = EmptySnapshot
  /\ cachedResp.status = 200
  /\ cachedResp.cached
  /\ cachedResp.cells = << >>
  /\ cachedResp.scanned = 0

\* The warm-up found no collection and no periodic firing has started a run
\* since: nothing in flight, nothing cached.
WaitingForPeriodic ==
  /\ warmupFired
  /\ ret.why = "unavailable"
  /\ bgRuns = << >>
  /\ ~isComputingCache
  /\ DOMAIN gridCache = {}

\* C27: if the collection is there from some point on and from some point on
\* no stream fails, the entry of the default cell size is eventually present;
\* and after a warm-up firing that found no collection the entry stays absent,
\* with no run in flight, until a periodic firing.
C27_EntryEventuallyPresent ==
  /\ (<>[]getCollection /\ <>[][~(\E i \in 1..MaxRuns : BgFail(i))]_vars)
       => <>(DefaultSizeDeg \in DOMAIN gridCache)
  /\ [][/\ (WarmupFire /\ ~getCollection) => WaitingForPeriodic'
        /\ (WaitingForPeriodic /\ ~PeriodicFire) => WaitingForPeriodic']_vars

\* A lookup was answered "not cached, not computing" before any run, and the
\* entry of the default size is now there, put by a run that completed.
C27_Witness ==
  /\ cachedResp.status = 200
  /\ ~cachedResp.cached
  /\ ~cachedResp.computing
  /\ ret = Returned("done", DefaultSizeDeg)
  /\ DefaultSizeDeg \in DOMAIN gridCache
  /\ gridCache[DefaultSizeDeg].scanned >= 1

\* C28: in every snapshot of either path the counts of the cells add up to at
\* most min(scanned, cap), and the turn of the loop that takes scanned past
\* the cap adds one to scanned and nothing to the map.
C28_CountsWithinCap ==
  /\ [](call.pc = "folded" =>
          SumOfCounts(call.out.cells) <= Min(call.out.scanned, call.run.cap))
  /\ [][(FoldScan /\ call.run.scanned + 1 > call.run.cap) =>
          (/\ call'.run.scanned = call.run.scanned + 1
           /\ call'.run.map = call.run.map)]_vars

\* A refresh left its loop one document past the cap: scanned is cap + 1 and
\* the cells count cap documents.
C28_Witness ==
  /\ call.pc = "folded"
  /\ call.path = "bg"
  /\ call.out.scanned = call.run.cap + 1
  /\ SumOfCounts(call.out.cells) = call.run.cap

\* C29: the cache never holds a key other than that of the default cell size
\* and no run is ever for another size; a lookup whose sizeDeg is not finite
\* or not positive is answered for 0.25, from its entry when there is one; a
\* lookup for another valid size is answered cached = false, computing being
\* the flag, which only a run for 0.25 can hold.
C29_OnlyDefaultKey ==
  /\ [](/\ DOMAIN gridCache \subseteq { DefaultSizeDeg }
        /\ \A i \in 1..Len(bgRuns) : bgRuns[i].sizeDeg = DefaultSizeDeg)
  /\ [][\A q \in CachedQueries :
          GetCachedGrid(q) =>
            LET sizeDeg == NumberOr(q, DefaultSizeDeg) IN
            IF ~sizeDeg.fin \/ sizeDeg.v <= 0
            THEN /\ cachedResp'.sizeDeg = DefaultSizeDeg
                 /\ DefaultSizeDeg \in DOMAIN gridCache =>
                      (/\ cachedResp'.cached
                       /\ cachedResp'.cells = gridCache[DefaultSizeDeg].cells)
            ELSE sizeDeg.v # DefaultSizeDeg =>
                   (/\ cachedResp'.sizeDeg = sizeDeg.v
                    /\ ~cachedResp'.cached
                    /\ cachedResp'.computing = isComputingCache
                    /\ cachedResp'.computing =>
                         (Len(bgRuns) = 1 /\ bgRuns[1].sizeDeg = DefaultSizeDeg))]_vars

\* A lookup for 1.0 degree was answered "not cached, computing" while the
\* entry of 0.25 is there and a refresh of it is under way.
C29_Witness ==
  /\ cachedResp.status = 200
  /\ cachedResp.sizeDeg = OnDemandSizeDeg
  /\ ~cachedResp.cached
  /\ cachedResp.computing
  /\ DOMAIN gridCache = { DefaultSizeDeg }
  /\ Len(bgRuns) = 1
  /\ bgRuns[1].sizeDeg = DefaultSizeDeg

\* C30: at most one reconnect timer is pending, and reconnectTimer holds a
\* handle exactly while one is; scheduleReconnect called while one is pending
\* schedules nothing; when the timer's attempt goes on its way reconnectTimer
\* is null again; after a failed attempt, at its await or before it, a timer
\* of at most 30000 ms is pending unless the next attempt is already on its
\* way, and a pending timer eventually fires.
C30_OneReconnectTimer ==
  /\ [](/\ Len(timers) <= 1
        /\ reconnectTimer <=> Len(timers) = 1
        /\ \A i \in 1..Len(timers) : timers[i].wait <= MaxDelay)
  /\ [][/\ (reconnectTimer /\ (ConnectFails \/ ClientClose)) =>
             (timers' = timers /\ reconnectTimer')
        /\ ConnectFails => Len(timers') = 1
        /\ ReconnectFires =>
             IF connecting' # connecting
             THEN ~reconnectTimer' /\ timers' = << >>
             ELSE Len(timers') = 1]_vars
  /\ \A k \in 2..MaxAttempt :
       (Len(timers) >= 1 /\ timers[1].nextAttempt = k)
         ~> (timers = << >> \/ timers[1].nextAttempt # k)

\* The attempts have failed up to the highest delay: a timer of 30000 ms is
\* pending for the next one, while another attempt, started after a close, is
\* awaiting its connection.
C30_Witness ==
  /\ Len(timers) = 1
  /\ timers[1].wait = MaxDelay
  /\ timers[1].nextAttempt = MaxAttempt
  /\ reconnectTimer
  /\ Len(connecting) >= 1
  /\ collection = "ready"

====
